---- MODULE Spec2Model ----
(***************************************************************************)
(* Passport photo extractor: the crop geometry (calculatePassportCrop),    *)
(* the face selector, the POST /api/crop handler and the start-up of the   *)
(* process, for the two service variants src/server.js and                 *)
(* src/unnamed/part_000.                                                   *)
(*                                                                         *)
(* Numbers.  The geometry is computed by the code in IEEE doubles from the *)
(* decimal constants 0.75, 0.77 and 0.1.  For boxes with integer           *)
(* coordinates every intermediate value is a multiple of 1/150 pixel, so   *)
(* the model keeps every real value as an integer number of 1/Scale        *)
(* pixels and every division below is exact.  Floor and Math.round are     *)
(* computed on these exact values.                                         *)
(***************************************************************************)
EXTENDS Integers, Sequences, FiniteSets, TLC

VARIABLES
    \* ---- the process -------------------------------------------------
    variant,        \* which entry point runs: "server" or "part_000"
    proc,           \* position of the start-up code / state of the process
    models,         \* the face-api nets that finished loadFromDisk
    \* ---- the request in the POST /api/crop handler -------------------
    pc,             \* position of the handler
    req,            \* [file, format]: req.file and req.query.format
    img,            \* result of canvas.loadImage
    detections,     \* result of detectAllFaces(...).withFaceLandmarks()
    bestFace,       \* result of the reduce
    cropRegion,     \* result of calculatePassportCrop in the handler
    outputBuffer,   \* result of sharp(...).toBuffer()
    err,            \* the exception caught by the handler's catch
    sent,           \* the responses written to res, in order
    calls,          \* the pipeline stages the handler invoked, in order
    \* ---- calculatePassportCrop applied to drawn inputs ---------------
    gpc,            \* "off", "input" or "returned"
    box,            \* argument box
    imageWidth,     \* argument imageWidth
    imageHeight,    \* argument imageHeight
    frame,          \* the locals of the call in src/server.js
    region,         \* value returned by src/server.js
    regionAlt       \* value returned by src/unnamed/part_000

procVars == <<variant, proc, models>>
reqVars  == <<pc, req, img, detections, bestFace, cropRegion, outputBuffer, err, sent, calls>>
geoVars  == <<gpc, box, imageWidth, imageHeight, frame, region, regionAlt>>
vars     == <<variant, proc, models, pc, req, img, detections, bestFace, cropRegion,
              outputBuffer, err, sent, calls, gpc, box, imageWidth, imageHeight,
              frame, region, regionAlt>>

-----------------------------------------------------------------------------
(* Bounds of the model *)

\* largest image side, in pixels, of the inputs drawn for calculatePassportCrop
MaxImage == 6
\* largest side of a drawn face box
MaxBox == 6
\* how far, in pixels, a drawn box may start left of / above the image
Margin == 1
\* longest detection list the detector returns in the model
MaxFaces == 3

-----------------------------------------------------------------------------
(* Arithmetic *)

\* 0.75, 0.77 and 0.1 as hundredths
FaceShare == 75
AspectRatio == 77
HeadShift == 10
Hundred == 100

\* one pixel, in model units: 150 is the least common denominator of
\* w/2, h/0.75, h/0.75*0.77/2 and h*0.1 for integer w and h
Scale == 2 * FaceShare

Max(a, b) == IF a > b THEN a ELSE b
Min(a, b) == IF a < b THEN a ELSE b

\* Math.floor of a scaled value, as a whole number of pixels
Floor(v) == v \div Scale

\* Math.round of a scaled value: floor(v + 0.5), ties towards +infinity
Round(v) == (v + Scale \div 2) \div Scale

\* an optional value: undefined is the empty sequence, v is <<v>>
Undefined == <<>>
Some(v) == <<v>>

-----------------------------------------------------------------------------
(* calculatePassportCrop, src/server.js *)

\* mutant: the crop shifted up by the whole face height instead of a tenth
PassportFrame_shiftWhole(b, iw, ih) ==
    LET faceCenterX  == Scale * b.x + (Scale * b.width) \div 2
        faceCenterY  == Scale * b.y + (Scale * b.height) \div 2
        targetHeight == (Scale * b.height * Hundred) \div FaceShare
        targetWidth  == (targetHeight * AspectRatio) \div Hundred
        cropX0 == faceCenterX - targetWidth \div 2
        cropY0 == faceCenterY - targetHeight \div 2
        cropY1 == cropY0 - Scale * b.height
        cropX2 == IF cropX0 < 0 THEN 0 ELSE cropX0
        cropY2 == IF cropY1 < 0 THEN 0 ELSE cropY1
        cropX3 == IF cropX2 + targetWidth > Scale * iw
                  THEN Scale * iw - targetWidth ELSE cropX2
        cropY3 == IF cropY2 + targetHeight > Scale * ih
                  THEN Scale * ih - targetHeight ELSE cropY2
    IN  [cropX |-> cropX3, cropY |-> cropY3,
         targetWidth |-> targetWidth, targetHeight |-> targetHeight,
         clamps |-> {c \in {"left", "top", "right", "bottom"} :
                       \/ c = "left"   /\ cropX0 < 0
                       \/ c = "top"    /\ cropY1 < 0
                       \/ c = "right"  /\ cropX2 + targetWidth > Scale * iw
                       \/ c = "bottom" /\ cropY2 + targetHeight > Scale * ih}]

\* the locals of calculatePassportCrop after the four boundary checks,
\* with the set of boundary checks whose condition was true
PassportFrame(b, iw, ih) ==
    LET faceCenterX  == Scale * b.x + (Scale * b.width) \div 2
        faceCenterY  == Scale * b.y + (Scale * b.height) \div 2
        targetHeight == (Scale * b.height * Hundred) \div FaceShare
        targetWidth  == (targetHeight * AspectRatio) \div Hundred
        cropX0 == faceCenterX - targetWidth \div 2
        cropY0 == faceCenterY - targetHeight \div 2
        cropY1 == cropY0 - (Scale * b.height * HeadShift) \div Hundred
        cropX2 == IF cropX0 < 0 THEN 0 ELSE cropX0
        cropY2 == IF cropY1 < 0 THEN 0 ELSE cropY1
        cropX3 == IF cropX2 + targetWidth > Scale * iw
                  THEN Scale * iw - targetWidth ELSE cropX2
        cropY3 == IF cropY2 + targetHeight > Scale * ih
                  THEN Scale * ih - targetHeight ELSE cropY2
    IN  [cropX |-> cropX3, cropY |-> cropY3,
         targetWidth |-> targetWidth, targetHeight |-> targetHeight,
         clamps |-> {c \in {"left", "top", "right", "bottom"} :
                       \/ c = "left"   /\ cropX0 < 0
                       \/ c = "top"    /\ cropY1 < 0
                       \/ c = "right"  /\ cropX2 + targetWidth > Scale * iw
                       \/ c = "bottom" /\ cropY2 + targetHeight > Scale * ih}]

\* mutant: the result without the min-capping of width and height
calculatePassportCrop_nocap(b, iw, ih) ==
    LET f == PassportFrame(b, iw, ih)
    IN  [left   |-> Max(0, Floor(f.cropX)),
         top    |-> Max(0, Floor(f.cropY)),
         width  |-> Floor(f.targetWidth),
         height |-> Floor(f.targetHeight)]

\* mutant: width and height shrunk to keep one pixel of margin when they fit exactly
calculatePassportCrop_shrink(b, iw, ih) ==
    LET f == PassportFrame(b, iw, ih)
    IN  [left   |-> Max(0, Floor(f.cropX)),
         top    |-> Max(0, Floor(f.cropY)),
         width  |-> Min(iw - 1, Floor(f.targetWidth)),
         height |-> Min(ih - 1, Floor(f.targetHeight))]

calculatePassportCrop(b, iw, ih) ==
    LET f == PassportFrame(b, iw, ih)
    IN  [left   |-> Max(0, Floor(f.cropX)),
         top    |-> Max(0, Floor(f.cropY)),
         width  |-> Min(iw, Floor(f.targetWidth)),
         height |-> Min(ih, Floor(f.targetHeight))]

-----------------------------------------------------------------------------
(* calculatePassportCrop, src/unnamed/part_000 *)

calculatePassportCropAlt(b, iw, ih) ==
    LET faceCenterX  == Scale * b.x + (Scale * b.width) \div 2
        faceCenterY  == Scale * b.y + (Scale * b.height) \div 2
        targetHeight == (Scale * b.height * Hundred) \div FaceShare
        targetWidth  == (targetHeight * AspectRatio) \div Hundred
        cropX0 == faceCenterX - targetWidth \div 2
        cropY0 == faceCenterY - targetHeight \div 2
        cropY1 == cropY0 - (Scale * b.height * HeadShift) \div Hundred
        cropX2 == IF cropX0 < 0 THEN 0 ELSE cropX0
        cropY2 == IF cropY1 < 0 THEN 0 ELSE cropY1
        cropX3 == IF cropX2 + targetWidth > Scale * iw
                  THEN Scale * iw - targetWidth ELSE cropX2
        cropY3 == IF cropY2 + targetHeight > Scale * ih
                  THEN Scale * ih - targetHeight ELSE cropY2
    IN  [left   |-> Round(cropX3),
         top    |-> Round(cropY3),
         width  |-> Round(targetWidth),
         height |-> Round(targetHeight)]

-----------------------------------------------------------------------------
(* The inputs of the service *)

\* req.file.size of the uploads
FileSizes == {1024, 2048}

\* req.query.format: absent, or one of these strings
Formats == {Undefined, Some("base64"), Some("binary"), Some("png")}

\* what canvas.loadImage decodes
Images == {[width |-> 4, height |-> 5], [width |-> 8, height |-> 8]}

\* what the detector finds: {detection: {box, score}}; the score is a
\* property of the detection, a box has x, y, width and height only.
\* The first two boxes have the same area.  Scores in hundredths.
Face(x, y, w, h, s) ==
    [detection |-> [box |-> [x |-> x, y |-> y, width |-> w, height |-> h], score |-> s]]

Faces == {Face(1, 1, 2, 3, 97), Face(2, 2, 3, 2, 88), Face(0, 0, 1, 1, 61), Face(0, 0, 6, 8, 99)}

DetectionLists == UNION {[1..n -> Faces] : n \in 0..MaxFaces}

\* what sharp encodes
OutputBuffers == {<<255, 216, 255>>, <<255, 216, 255, 224>>}

\* err.message of what the external calls throw
LoadImageErrors == {"Unsupported image type"}
DetectErrors    == {"detector failed"}
SharpErrors     == {"extract_area: bad extract area"}

-----------------------------------------------------------------------------
(* Buffer.toString('base64') *)

B64Alphabet ==
    <<"A","B","C","D","E","F","G","H","I","J","K","L","M","N","O","P",
      "Q","R","S","T","U","V","W","X","Y","Z","a","b","c","d","e","f",
      "g","h","i","j","k","l","m","n","o","p","q","r","s","t","u","v",
      "w","x","y","z","0","1","2","3","4","5","6","7","8","9","+","/">>

B64Char(sextet) == B64Alphabet[sextet + 1]

RECURSIVE Base64(_)
Base64(bytes) ==
    IF Len(bytes) = 0 THEN ""
    ELSE IF Len(bytes) = 1 THEN
        B64Char(bytes[1] \div 4) \o B64Char((bytes[1] % 4) * 16) \o "=="
    ELSE IF Len(bytes) = 2 THEN
        B64Char(bytes[1] \div 4)
        \o B64Char((bytes[1] % 4) * 16 + bytes[2] \div 16)
        \o B64Char((bytes[2] % 16) * 4) \o "="
    ELSE
        B64Char(bytes[1] \div 4)
        \o B64Char((bytes[1] % 4) * 16 + bytes[2] \div 16)
        \o B64Char((bytes[2] % 16) * 4 + bytes[3] \div 64)
        \o B64Char(bytes[3] % 64)
        \o Base64(SubSeq(bytes, 4, Len(bytes)))

-----------------------------------------------------------------------------
(* The face selector: detections.reduce((prev, current) => ...) *)

\* box.area of face-api
Area(b) == b.width * b.height

\* mutant: the comparison made with >=
Larger_orEqual(prev, current) ==
    IF Area(prev.detection.box) >= Area(current.detection.box) THEN prev ELSE current

\* the callback of the reduce
Larger(prev, current) ==
    IF Area(prev.detection.box) > Area(current.detection.box) THEN prev ELSE current

\* Array.prototype.reduce without an initial value, on a non-empty list
RECURSIVE ReduceFrom(_, _, _)
ReduceFrom(prev, ds, i) ==
    IF i > Len(ds) THEN prev ELSE ReduceFrom(Larger(prev, ds[i]), ds, i + 1)

Reduce(ds) == ReduceFrom(ds[1], ds, 2)

\* obj.name of a JavaScript object: undefined when the object has no such property
Prop(obj, name) == IF name \in DOMAIN obj THEN Some(obj[name]) ELSE Undefined

-----------------------------------------------------------------------------
(* Responses *)

Response(status, type, body) == [status |-> status, type |-> type, body |-> body]

\* res.status(400)...: a text body in server.js, a JSON body in part_000
NoFileResponse ==
    IF variant = "server"
    THEN Response(400, "text/html", [text |-> "No file uploaded."])
    ELSE Response(400, "application/json", [error |-> "No file uploaded"])

\* res.status(422).json({error})
NoFaceResponse ==
    IF variant = "server"
    THEN Response(422, "application/json", [error |-> "No face detected in the photo."])
    ELSE Response(422, "application/json", [error |-> "No face detected."])

\* mutant: the catch answers like the no-face branch
ErrorResponse_as422(message) ==
    Response(422, "application/json", [error |-> "No face detected."])

\* res.status(500).json({error, details: err.message}) of the catch
ErrorResponse(message) ==
    IF variant = "server"
    THEN Response(500, "application/json", [error |-> "Processing failed", details |-> message])
    ELSE Response(500, "application/json", [error |-> "Server Error", details |-> message])

\* step 6 of the handler: the response for outputBuffer
SuccessResponse(buffer) ==
    LET returnFormat == IF req.format = Undefined THEN "binary" ELSE req.format[1]
    IN  IF returnFormat = "base64"
        THEN IF variant = "server"
             THEN Response(200, "application/json",
                      [image |-> "data:image/jpeg;base64," \o Base64(buffer),
                       meta  |-> [originalSize   |-> req.file[1].size,
                                  faceConfidence |-> Prop(bestFace[1].detection.box, "score")]])
             ELSE Response(200, "application/json",
                      [image |-> "data:image/jpeg;base64," \o Base64(buffer)])
        ELSE Response(200, "image/jpeg", [bytes |-> buffer])

\* sharp's extract accepts a region of positive size inside the image only
ExtractAreaOk(r, image) ==
    /\ r.left >= 0 /\ r.top >= 0 /\ r.width > 0 /\ r.height > 0
    /\ r.left + r.width <= image.width
    /\ r.top + r.height <= image.height

-----------------------------------------------------------------------------
(* Initial states *)

NoRequest ==
    /\ pc = "idle"
    /\ req = [file |-> Undefined, format |-> Undefined]
    /\ img = Undefined
    /\ detections = Undefined
    /\ bestFace = Undefined
    /\ cropRegion = Undefined
    /\ outputBuffer = Undefined
    /\ err = Undefined
    /\ sent = <<>>
    /\ calls = <<>>

NoGeometry ==
    /\ gpc = "off"
    /\ box = [x |-> 0, y |-> 0, width |-> 0, height |-> 0]
    /\ imageWidth = 1
    /\ imageHeight = 1
    /\ frame = Undefined
    /\ region = Undefined
    /\ regionAlt = Undefined

\* the process has been started and runs the module's top-level code
Init ==
    /\ variant \in {"server", "part_000"}
    /\ proc = "start"
    /\ models = {}
    /\ NoRequest
    /\ NoGeometry

-----------------------------------------------------------------------------
(* Start-up: loadModels().then(() => app.listen(...)) *)

\* loadModels up to its first await.  part_000 first looks for the models
\* folder and exits when it is missing.
LoadModels ==
    /\ proc = "start"
    /\ \E dirExists \in BOOLEAN :
          proc' = IF variant = "part_000" /\ ~dirExists THEN "exited" ELSE "await_ssd"
    /\ UNCHANGED <<variant, models, reqVars, geoVars>>

\* ssdMobilenetv1.loadFromDisk resolves
SsdLoaded ==
    /\ proc = "await_ssd"
    /\ models' = models \cup {"ssdMobilenetv1"}
    /\ proc' = "await_landmark"
    /\ UNCHANGED <<variant, reqVars, geoVars>>

\* faceLandmark68Net.loadFromDisk resolves and loadModels returns
LandmarkLoaded ==
    /\ proc = "await_landmark"
    /\ models' = models \cup {"faceLandmark68Net"}
    /\ proc' = "loaded"
    /\ UNCHANGED <<variant, reqVars, geoVars>>

\* either loadFromDisk rejects: the catch calls process.exit(1)
LoadFailed ==
    /\ proc \in {"await_ssd", "await_landmark"}
    /\ proc' = "exited"
    /\ UNCHANGED <<variant, models, reqVars, geoVars>>

\* mutant: app.listen called without waiting for loadModels
Listen_early ==
    /\ proc \in {"start", "await_ssd", "await_landmark", "loaded"}
    /\ proc' = "listening"
    /\ UNCHANGED <<variant, models, reqVars, geoVars>>

\* the then-callback: app.listen(PORT)
Listen ==
    /\ proc = "loaded"
    /\ proc' = "listening"
    /\ UNCHANGED <<variant, models, reqVars, geoVars>>

-----------------------------------------------------------------------------
(* app.post('/api/crop', upload.single('photo'), async (req, res) => ...) *)

\* mutant: the handler goes on without an upload
FileMissing_never(file) == FALSE

\* !req.file
FileMissing(file) == file = Undefined

\* !detections || detections.length === 0  (part_000: !detections.length)
NoDetections(ds) == Len(ds) = 0

\* the calculatePassportCrop of the running variant
CropOf(b, image) ==
    IF variant = "server"
    THEN calculatePassportCrop(b, image.width, image.height)
    ELSE calculatePassportCropAlt(b, image.width, image.height)

\* the catch block: one 500 response, the handler returns
Catch(message) ==
    /\ err' = Some(message)
    /\ sent' = Append(sent, ErrorResponse(message))
    /\ pc' = "done"

\* a request arrives at the listening server; the handler runs to the
\* 400 response or to its first await
HandlerStart ==
    /\ proc = "listening"
    /\ pc = "idle"
    /\ \E file \in {Undefined} \cup {Some([size |-> n]) : n \in FileSizes}, format \in Formats :
          /\ req' = [file |-> file, format |-> format]
          /\ IF FileMissing(file)
             THEN /\ sent' = Append(sent, NoFileResponse)
                  /\ pc' = "done"
                  /\ calls' = calls
             ELSE /\ calls' = Append(calls, "loadImage")
                  /\ pc' = "await_loadImage"
                  /\ sent' = sent
    /\ UNCHANGED <<img, detections, bestFace, cropRegion, outputBuffer, err>>
    /\ UNCHANGED <<procVars, geoVars>>

\* canvas.loadImage resolves; the handler calls the detector
LoadImageResolved ==
    /\ proc = "listening"
    /\ pc = "await_loadImage"
    /\ \E image \in Images : img' = Some(image)
    /\ calls' = Append(calls, "detectAllFaces")
    /\ pc' = "await_detect"
    /\ UNCHANGED <<req, detections, bestFace, cropRegion, outputBuffer, err, sent>>
    /\ UNCHANGED <<procVars, geoVars>>

\* canvas.loadImage rejects
LoadImageRejected ==
    /\ proc = "listening"
    /\ pc = "await_loadImage"
    /\ \E message \in LoadImageErrors : Catch(message)
    /\ UNCHANGED <<req, img, detections, bestFace, cropRegion, outputBuffer, calls>>
    /\ UNCHANGED <<procVars, geoVars>>

\* the detector resolves; the handler answers 422 or selects the face,
\* computes the crop and calls sharp
DetectResolved ==
    /\ proc = "listening"
    /\ pc = "await_detect"
    /\ \E ds \in DetectionLists :
          /\ detections' = Some(ds)
          /\ IF NoDetections(ds)
             THEN /\ sent' = Append(sent, NoFaceResponse)
                  /\ pc' = "done"
                  /\ UNCHANGED <<bestFace, cropRegion, calls>>
             ELSE /\ bestFace' = Some(Reduce(ds))
                  /\ cropRegion' = Some(CropOf(Reduce(ds).detection.box, img[1]))
                  /\ calls' = calls \o <<"reduce", "calculatePassportCrop", "sharp">>
                  /\ pc' = "await_sharp"
                  /\ sent' = sent
    /\ UNCHANGED <<req, img, outputBuffer, err>>
    /\ UNCHANGED <<procVars, geoVars>>

\* the detector rejects
DetectRejected ==
    /\ proc = "listening"
    /\ pc = "await_detect"
    /\ \E message \in DetectErrors : Catch(message)
    /\ UNCHANGED <<req, img, detections, bestFace, cropRegion, outputBuffer, calls>>
    /\ UNCHANGED <<procVars, geoVars>>

\* sharp resolves with the encoded JPEG; the handler sends it
SharpResolved ==
    /\ proc = "listening"
    /\ pc = "await_sharp"
    /\ ExtractAreaOk(cropRegion[1], img[1])
    /\ \E buffer \in OutputBuffers :
          /\ outputBuffer' = Some(buffer)
          /\ sent' = Append(sent, SuccessResponse(buffer))
    /\ pc' = "done"
    /\ UNCHANGED <<req, img, detections, bestFace, cropRegion, err, calls>>
    /\ UNCHANGED <<procVars, geoVars>>

\* sharp rejects
SharpRejected ==
    /\ proc = "listening"
    /\ pc = "await_sharp"
    /\ \E message \in SharpErrors : Catch(message)
    /\ UNCHANGED <<req, img, detections, bestFace, cropRegion, outputBuffer, calls>>
    /\ UNCHANGED <<procVars, geoVars>>

\* the request is over; its locals are gone and the server takes the next one
RequestEnd ==
    /\ proc = "listening"
    /\ pc = "done"
    /\ pc' = "idle"
    /\ req' = [file |-> Undefined, format |-> Undefined]
    /\ img' = Undefined
    /\ detections' = Undefined
    /\ bestFace' = Undefined
    /\ cropRegion' = Undefined
    /\ outputBuffer' = Undefined
    /\ err' = Undefined
    /\ sent' = <<>>
    /\ calls' = <<>>
    /\ UNCHANGED <<procVars, geoVars>>

Next ==
    \/ LoadModels
    \/ SsdLoaded
    \/ LandmarkLoaded
    \/ LoadFailed
    \/ Listen
    \/ HandlerStart
    \/ LoadImageResolved
    \/ LoadImageRejected
    \/ DetectResolved
    \/ DetectRejected
    \/ SharpResolved
    \/ SharpRejected
    \/ RequestEnd

Spec == Init /\ [][Next]_vars

-----------------------------------------------------------------------------
(* calculatePassportCrop as a function of its arguments *)

Boxes ==
    [x : (0 - Margin)..MaxImage, y : (0 - Margin)..MaxImage,
     width : 0..MaxBox, height : 0..MaxBox]

InitCrop ==
    /\ variant = "server"
    /\ proc = "start"
    /\ models = {}
    /\ NoRequest
    /\ gpc = "input"
    /\ box \in Boxes
    /\ imageWidth \in 1..MaxImage
    /\ imageHeight \in 1..MaxImage
    /\ frame = Undefined
    /\ region = Undefined
    /\ regionAlt = Undefined

\* both variants' calculatePassportCrop are called with the drawn arguments
ApplyCrop ==
    /\ gpc = "input"
    /\ gpc' = "returned"
    /\ frame' = Some(PassportFrame(box, imageWidth, imageHeight))
    /\ region' = Some(calculatePassportCrop(box, imageWidth, imageHeight))
    /\ regionAlt' = Some(calculatePassportCropAlt(box, imageWidth, imageHeight))
    /\ UNCHANGED <<box, imageWidth, imageHeight, procVars, reqVars>>

NextCrop == ApplyCrop

SpecCrop == InitCrop /\ [][NextCrop]_vars

-----------------------------------------------------------------------------
(* Properties of calculatePassportCrop, checked under SpecCrop *)

Returned == gpc = "returned"

\* the box lies fully inside the image
BoxInsideImage ==
    /\ box.x >= 0 /\ box.y >= 0
    /\ box.x + box.width <= imageWidth
    /\ box.y + box.height <= imageHeight

\* box.height / 0.75 * 0.77 <= imageWidth and box.height / 0.75 <= imageHeight
CropFitsImage ==
    /\ box.height * Hundred * AspectRatio <= imageWidth * FaceShare * Hundred
    /\ box.height * Hundred <= imageHeight * FaceShare

\* C1: for every box with width >= 0 and height >= 0 and every image of
\* positive size, the region returned by src/server.js lies inside the
\* image: 0 <= left, 0 <= top, left + width <= imageWidth and
\* top + height <= imageHeight.
C1_RegionInsideImage ==
    Returned =>
        /\ 0 <= region[1].left
        /\ 0 <= region[1].top
        /\ region[1].left + region[1].width <= imageWidth
        /\ region[1].top + region[1].height <= imageHeight

\* C1 witness: a box that starts outside the image and whose crop is wider
\* and higher than the image has been cropped
C1_Witness ==
    /\ Returned
    /\ box.x < 0
    /\ box.x + box.width > imageWidth
    /\ frame[1].targetWidth > Scale * imageWidth
    /\ frame[1].targetHeight > Scale * imageHeight
    /\ region[1].width = imageWidth

\* C3: when none of the four boundary checks triggers, the distance from
\* the bottom of the face box to the bottom of the crop is greater than the
\* distance from the top of the crop to the top of the face box (stated for
\* the boxes of positive width and height that lie inside the image).
C3_MoreSpaceBelowThanAbove ==
    (Returned /\ frame[1].clamps = {} /\ BoxInsideImage
        /\ box.width >= 1 /\ box.height >= 1) =>
        (frame[1].cropY + frame[1].targetHeight) - Scale * (box.y + box.height)
            > Scale * box.y - frame[1].cropY

\* C7: for a box inside the image whose crop fits the image, the returned
\* width is floor(box.height / 0.75 * 0.77) and the returned height is
\* floor(box.height / 0.75): the capping against the image size changes
\* neither.
C7_FittingCropKeepsSize ==
    (Returned /\ BoxInsideImage /\ CropFitsImage) =>
        /\ region[1].width = (box.height * Hundred * AspectRatio) \div (FaceShare * Hundred)
        /\ region[1].height = (box.height * Hundred) \div FaceShare

\* C7 witness: such a crop is exactly as high as the image, and a boundary
\* check moved it
C7_Witness ==
    /\ Returned /\ BoxInsideImage /\ CropFitsImage
    /\ box.height >= 1
    /\ frame[1].targetHeight = Scale * imageHeight
    /\ frame[1].clamps # {}

\* C9: both variants return the same region for the same arguments (stated
\* for the boxes of positive width and height that lie inside the image and
\* whose crop fits the image).
C9_VariantsReturnSameRegion ==
    (Returned /\ BoxInsideImage /\ CropFitsImage
        /\ box.width >= 1 /\ box.height >= 1) =>
        region[1] = regionAlt[1]

\* C10 as claimed: for an integer box inside the image, of height >= 1 and
\* with box.height / 0.75 <= imageHeight, the returned region contains the
\* box vertically: top <= box.y and box.y + box.height <= top + height.
C10_RegionContainsFaceVertically ==
    (Returned /\ BoxInsideImage /\ box.width >= 1 /\ box.height >= 1
        /\ box.height * Hundred <= imageHeight * FaceShare) =>
        /\ region[1].top <= box.y
        /\ box.y + box.height <= region[1].top + region[1].height

\* C10 amended: under the same conditions top <= box.y, and the bottom of
\* the region is at most one pixel above the bottom of the box:
\* box.y + box.height <= top + height + 1.
C10_RegionContainsFaceUpToOnePixel ==
    (Returned /\ BoxInsideImage /\ box.height >= 1
        /\ box.height * Hundred <= imageHeight * FaceShare) =>
        /\ region[1].top <= box.y
        /\ box.y + box.height <= region[1].top + region[1].height + 1

\* C10 witness: the bottom boundary check triggered and flooring lost the
\* last pixel row of the box
C10_Witness ==
    /\ Returned /\ BoxInsideImage /\ box.height >= 1
    /\ box.height * Hundred <= imageHeight * FaceShare
    /\ "bottom" \in frame[1].clamps
    /\ box.y + box.height = region[1].top + region[1].height + 1

-----------------------------------------------------------------------------
(* Properties of the service, checked under Spec *)

Range(seq) == {seq[i] : i \in 1..Len(seq)}

FaceArea(face) == face.detection.box.width * face.detection.box.height

\* the positions of the faces of largest area in a non-empty list
LargestPositions(ds) ==
    {i \in 1..Len(ds) : \A j \in 1..Len(ds) : FaceArea(ds[i]) >= FaceArea(ds[j])}

FirstOf(positions) == CHOOSE i \in positions : \A j \in positions : i <= j
LastOf(positions)  == CHOOSE i \in positions : \A j \in positions : i >= j

\* C2 as claimed: the selected face has an area >= that of every detected
\* face, and among the faces of largest area it is the first of the list.
C2_LargestFaceFirstWins ==
    bestFace # Undefined =>
        /\ \A i \in 1..Len(detections[1]) : FaceArea(bestFace[1]) >= FaceArea(detections[1][i])
        /\ bestFace[1] = detections[1][FirstOf(LargestPositions(detections[1]))]

\* C2 amended: the selected face has an area >= that of every detected
\* face, and among the faces of largest area it is the last of the list.
C2_LargestFaceLastWins ==
    bestFace # Undefined =>
        /\ \A i \in 1..Len(detections[1]) : FaceArea(bestFace[1]) >= FaceArea(detections[1][i])
        /\ bestFace[1] = detections[1][LastOf(LargestPositions(detections[1]))]

\* C2 witness: a face was selected from a list in which two different faces
\* share the largest area
C2_Witness ==
    /\ bestFace # Undefined
    /\ \E i, j \in LargestPositions(detections[1]) : detections[1][i] # detections[1][j]

\* C4: a request without a file invokes no stage of the pipeline; a request
\* whose detection list is empty invokes neither the selector nor
\* calculatePassportCrop nor the transformer; selector and calculator are
\* invoked with a non-empty detection list only.
C4_NoStageWithoutInput ==
    /\ (pc # "idle" /\ req.file = Undefined) => calls = <<>>
    /\ (detections # Undefined /\ Len(detections[1]) = 0) =>
           Range(calls) \cap {"reduce", "calculatePassportCrop", "sharp"} = {}
    /\ (Range(calls) \cap {"reduce", "calculatePassportCrop"} # {}) =>
           (detections # Undefined /\ Len(detections[1]) > 0)

\* C4 witness: a request with a file ended on an empty detection list after
\* decoding and detection only
C4_Witness ==
    /\ pc = "done"
    /\ detections = Some(<<>>)
    /\ calls = <<"loadImage", "detectAllFaces">>

\* the response carries an image
HasImageBody(r) == DOMAIN r.body \cap {"bytes", "image"} # {}

\* C5: a request is answered exactly once when the handler is over and not
\* before the outcome is known; the status is 400 without a file, 500 with
\* a JSON body {error, details} when a stage threw, 422 on an empty
\* detection list and 200 otherwise; an image is sent with status 200 only,
\* once sharp has produced it; the process keeps listening whatever the
\* outcome.
C5_OneResponsePerOutcome ==
    /\ Len(sent) <= 1
    /\ pc \in {"await_loadImage", "await_detect", "await_sharp"} => sent = <<>>
    /\ pc # "idle" => proc = "listening"
    /\ pc = "done" =>
        /\ Len(sent) = 1
        /\ sent[1].status =
              IF req.file = Undefined THEN 400
              ELSE IF err # Undefined THEN 500
              ELSE IF detections = Some(<<>>) THEN 422
              ELSE 200
        /\ sent[1].status = 500 =>
              /\ sent[1].type = "application/json"
              /\ DOMAIN sent[1].body = {"error", "details"}
              /\ sent[1].body.details = err[1]
        /\ HasImageBody(sent[1]) =>
              /\ sent[1].status = 200
              /\ outputBuffer # Undefined

\* C5 witness: a request whose transform threw was answered with one 500
C5_Witness ==
    /\ pc = "done"
    /\ err = Some("extract_area: bad extract area")
    /\ Len(sent) = 1
    /\ sent[1].status = 500
    /\ proc = "listening"

BothModels == {"ssdMobilenetv1", "faceLandmark68Net"}

\* C6: the server listens, and a request is handled, only when both models
\* are loaded; once the process has exited it never listens.
C6_ListenOnlyAfterModels ==
    /\ [](proc = "listening" => models = BothModels)
    /\ [](pc # "idle" => models = BothModels)
    /\ [][proc = "exited" => proc' = "exited"]_vars
    /\ [][proc' = "listening" => proc \in {"loaded", "listening"}]_vars

\* C6 witness: a request is being handled by the listening server
C6_Witness ==
    /\ proc = "listening"
    /\ models = BothModels
    /\ pc = "await_detect"

\* C8: a successful request with format=base64 is answered with the JSON
\* object {image: "data:image/jpeg;base64," + encoded output,
\* meta: {originalSize: the file's size, faceConfidence: the score of the
\* selected face}}; any other or absent format with the raw output bytes
\* and content-type image/jpeg.
C8_SuccessResponseShape ==
    (pc = "done" /\ sent # <<>> /\ sent[1].status = 200) =>
        IF req.format = Some("base64")
        THEN /\ sent[1].type = "application/json"
             /\ sent[1].body =
                  [image |-> "data:image/jpeg;base64," \o Base64(outputBuffer[1]),
                   meta  |-> [originalSize   |-> req.file[1].size,
                              faceConfidence |-> Some(bestFace[1].detection.score)]]
        ELSE /\ sent[1].type = "image/jpeg"
             /\ sent[1].body = [bytes |-> outputBuffer[1]]

====
